---- MODULE Spec2Model ----
(***************************************************************************)
(* BasicOutputBuilder and BasicOutput of                                   *)
(* sdk/src/types/block/output/basic.rs: the builder's working sets, its    *)
(* finalization (finish_unverified, finish) and the binary codec of the    *)
(* finished output.                                                        *)
(*                                                                         *)
(* An unlock condition or feature is a record [kind, data]: kind is the    *)
(* variant's discriminant, data stands for the variant's payload (the      *)
(* address, the timestamp, the length of the metadata or tag blob).  A     *)
(* BTreeSet is the sequence of its elements in ascending order of Ord.     *)
(***************************************************************************)
EXTENDS Integers, Sequences, FiniteSets, TLC

\* ------------------------------------------------------------------ bounds
\* payloads 1..MaxData of the address unlock condition and the sender feature
MaxData == 2
\* explicit amounts 0..MaxAmount
MaxAmount == 2
\* a token supply above every amount the model resolves
LargeSupply == 100000

\* --------------------------------------------------------- kinds (protocol)
ADDRESS == 0
STORAGE_DEPOSIT_RETURN == 1
TIMELOCK == 2
EXPIRATION == 3
STATE_CONTROLLER_ADDRESS == 4
GOVERNOR_ADDRESS == 5
IMMUTABLE_ALIAS_ADDRESS == 6

SENDER == 0
ISSUER == 1
METADATA == 2
TAG == 3

UnlockConditionKinds == ADDRESS..IMMUTABLE_ALIAS_ADDRESS
FeatureKinds == SENDER..TAG

\* BasicOutput::KIND
BASIC_OUTPUT_KIND == 3
\* BasicOutput::ALLOWED_UNLOCK_CONDITIONS
ALLOWED_UNLOCK_CONDITIONS == {ADDRESS, STORAGE_DEPOSIT_RETURN, TIMELOCK, EXPIRATION}
\* BasicOutput::ALLOWED_FEATURES
ALLOWED_FEATURES == {SENDER, METADATA, TAG}
\* Output::AMOUNT_MIN
AMOUNT_MIN == 1

\* ------------------------------------------------------------------ inputs
Entry(k, d) == [kind |-> k, data |-> d]

UnlockConditionInputs ==
    {Entry(ADDRESS, d) : d \in 1..MaxData}
      \cup {Entry(k, 1) : k \in {TIMELOCK, EXPIRATION, GOVERNOR_ADDRESS}}

FeatureInputs ==
    {Entry(SENDER, d) : d \in 1..MaxData}
      \cup {Entry(k, 1) : k \in {ISSUER, METADATA}}

\* a native token: kind is the token id, data the (non-zero) amount
NativeTokenInputs == {Entry(1, 1000)}

RentStructures ==
    {[v_byte_cost |-> 1, v_byte_factor_key |-> 10, v_byte_factor_data |-> 1],
     [v_byte_cost |-> 2, v_byte_factor_key |-> 1, v_byte_factor_data |-> 1]}

TokenSupplies == {1, MaxAmount, LargeSupply}

\* sequences of length 0..2 over S: the arguments of with_unlock_conditions / with_features
SeqsUpTo2(S) == {<<>>} \cup {<<a>> : a \in S} \cup {<<a, b>> : a \in S, b \in S}

Range(s) == {s[i] : i \in 1..Len(s)}
Kinds(s) == {s[i].kind : i \in 1..Len(s)}

\* ------------------------------------------------------------- BTreeSet<T>
\* Ord of UnlockCondition, Feature and NativeToken: by kind (token id) only
Cmp(a, b) == IF a.kind < b.kind THEN -1 ELSE IF a.kind > b.kind THEN 1 ELSE 0

RECURSIVE InsertSorted(_, _)
InsertSorted(set, x) ==
    IF set = <<>> THEN <<x>>
    ELSE IF Cmp(x, Head(set)) < 0 THEN <<x>> \o set
    ELSE <<Head(set)>> \o InsertSorted(Tail(set), x)

\* a faulty BTreeInsert: the new element is stored although an equal one is held
BTreeInsertAlways(set, x) == InsertSorted(set, x)

\* a faulty BTreeInsert: an element equal (by Ord) to x is overwritten
BTreeInsertOverwrites(set, x) ==
    IF \E i \in 1..Len(set) : Cmp(set[i], x) = 0
    THEN [i \in 1..Len(set) |-> IF Cmp(set[i], x) = 0 THEN x ELSE set[i]]
    ELSE InsertSorted(set, x)

\* a faulty BTreeInsert: a new element is put behind the elements held
BTreeInsertUnsorted(set, x) ==
    IF \E i \in 1..Len(set) : Cmp(set[i], x) = 0 THEN set ELSE Append(set, x)

\* BTreeSet::insert: an element equal (by Ord) to x keeps its place and its value
BTreeInsert(set, x) ==
    IF \E i \in 1..Len(set) : Cmp(set[i], x) = 0 THEN set ELSE InsertSorted(set, x)

\* a faulty BTreeReplace: behaves as insert
BTreeReplaceKeeps(set, x) ==
    IF \E i \in 1..Len(set) : Cmp(set[i], x) = 0 THEN set ELSE InsertSorted(set, x)

\* BTreeSet::replace: an element equal (by Ord) to x is overwritten by x
BTreeReplace(set, x) ==
    IF \E i \in 1..Len(set) : Cmp(set[i], x) = 0
    THEN [i \in 1..Len(set) |-> IF Cmp(set[i], x) = 0 THEN x ELSE set[i]]
    ELSE InsertSorted(set, x)

IsSortedUnique(s) == \A i \in 1..(Len(s) - 1) : Cmp(s[i], s[i + 1]) < 0

RECURSIVE SortSet(_)
\* the elements of a set of pairwise different kinds in ascending order
SortSet(T) ==
    IF T = {} THEN <<>>
    ELSE LET m == CHOOSE x \in T : \A y \in T : x.kind <= y.kind
         IN  <<m>> \o SortSet(T \ {m})

\* iter.collect::<BTreeSet<_>>(): the possible sets.  Ord and equality of the
\* elements compare the kind, so the elements are deduplicated by kind and kept in
\* ascending order; of several elements of one kind one survives.
Collect(seq) ==
    {SortSet(T) : T \in {U \in SUBSET Range(seq) :
                            /\ {x.kind : x \in U} = Kinds(seq)
                            /\ \A x, y \in U : x.kind = y.kind => x = y}}

\* ----------------------------------------------------------- binary codec
RECURSIVE PackUint(_, _)
\* an unsigned integer as w little-endian bytes
PackUint(n, w) == IF w = 0 THEN <<>> ELSE <<n % 256>> \o PackUint(n \div 256, w - 1)

Bytes(b, n) == [i \in 1..n |-> b]

ED25519_ADDRESS_KIND == 0
ADDRESS_LENGTH == 32
TOKEN_ID_LENGTH == 38
U256_LENGTH == 32

\* Address: one kind byte, then the 32 bytes of the identifier
PackAddress(d) == <<ED25519_ADDRESS_KIND>> \o Bytes(d, ADDRESS_LENGTH)

PackUnlockCondition(u) ==
    <<u.kind>> \o
    CASE u.kind = STORAGE_DEPOSIT_RETURN -> PackAddress(u.data) \o PackUint(u.data, 8)
      [] u.kind = TIMELOCK -> PackUint(u.data, 4)
      [] u.kind = EXPIRATION -> PackAddress(u.data) \o PackUint(u.data, 4)
      [] OTHER -> PackAddress(u.data)

PackFeature(f) ==
    <<f.kind>> \o
    CASE f.kind = METADATA -> PackUint(f.data, 2) \o Bytes(f.data, f.data)
      [] f.kind = TAG -> PackUint(f.data, 1) \o Bytes(f.data, f.data)
      [] OTHER -> PackAddress(f.data)

PackNativeToken(t) == Bytes(t.kind, TOKEN_ID_LENGTH) \o PackUint(t.data, U256_LENGTH)

RECURSIVE PackNativeTokens(_)
PackNativeTokens(s) ==
    IF s = <<>> THEN <<>> ELSE PackNativeToken(Head(s)) \o PackNativeTokens(Tail(s))

RECURSIVE PackUnlockConditions(_)
PackUnlockConditions(s) ==
    IF s = <<>> THEN <<>> ELSE PackUnlockCondition(Head(s)) \o PackUnlockConditions(Tail(s))

RECURSIVE PackFeatures(_)
PackFeatures(s) ==
    IF s = <<>> THEN <<>> ELSE PackFeature(Head(s)) \o PackFeatures(Tail(s))

\* the fields of a BasicOutput in declaration order, each collection after its count
PackBasicOutput(o) ==
    PackUint(o.amount, 8)
      \o PackUint(Len(o.native_tokens), 2) \o PackNativeTokens(o.native_tokens)
      \o PackUint(Len(o.unlock_conditions), 1) \o PackUnlockConditions(o.unlock_conditions)
      \o PackUint(Len(o.features), 1) \o PackFeatures(o.features)

\* Output::Basic(o): the output kind, then the output
PackOutput(o) == <<BASIC_OUTPUT_KIND>> \o PackBasicOutput(o)

\* -------------------------------------------------------------------- rent
OUTPUT_ID_LENGTH == 34
\* block id, milestone index and timestamp stored with every output
OUTPUT_METADATA_LENGTH == 40

\* Output::rent_cost: byte_cost * (key_bytes * key_factor + data_bytes * data_factor)
rent_cost(o, r) ==
    r.v_byte_cost * (OUTPUT_ID_LENGTH * r.v_byte_factor_key
                       + (OUTPUT_METADATA_LENGTH + Len(PackOutput(o))) * r.v_byte_factor_data)

\* ---------------------------------------------------------------- decoding
RECURSIVE UnpackUint(_, _, _)
\* the unsigned integer held by the w little-endian bytes at pos
UnpackUint(bytes, pos, w) ==
    IF w = 0 THEN 0 ELSE bytes[pos] + 256 * UnpackUint(bytes, pos + 1, w - 1)

Parsed(item, next) == [ok |-> TRUE, err |-> "", item |-> <<item>>, next |-> next]
ParseErr(e) == [ok |-> FALSE, err |-> e, item |-> <<>>, next |-> 0]

TAG_LENGTH_MAX == 64
METADATA_LENGTH_MAX == 8192

\* the number of bytes an unlock condition of kind k takes after its kind byte
UnlockConditionLength(k) ==
    CASE k = STORAGE_DEPOSIT_RETURN -> 1 + ADDRESS_LENGTH + 8
      [] k = TIMELOCK -> 4
      [] k = EXPIRATION -> 1 + ADDRESS_LENGTH + 4
      [] OTHER -> 1 + ADDRESS_LENGTH

UnpackUnlockCondition(bytes, pos) ==
    IF pos > Len(bytes) THEN ParseErr("UnexpectedEOF")
    ELSE LET k == bytes[pos] IN
         IF k \notin UnlockConditionKinds THEN ParseErr("InvalidUnlockConditionKind")
         ELSE IF pos + UnlockConditionLength(k) > Len(bytes) THEN ParseErr("UnexpectedEOF")
         ELSE IF k = TIMELOCK THEN Parsed(Entry(k, UnpackUint(bytes, pos + 1, 4)), pos + 5)
         ELSE IF bytes[pos + 1] # ED25519_ADDRESS_KIND THEN ParseErr("InvalidAddressKind")
         ELSE Parsed(Entry(k, bytes[pos + 2]), pos + 1 + UnlockConditionLength(k))

UnpackFeature(bytes, pos) ==
    IF pos > Len(bytes) THEN ParseErr("UnexpectedEOF")
    ELSE LET k == bytes[pos] IN
         IF k \notin FeatureKinds THEN ParseErr("InvalidFeatureKind")
         ELSE IF k = METADATA THEN
              IF pos + 2 > Len(bytes) THEN ParseErr("UnexpectedEOF")
              ELSE LET n == UnpackUint(bytes, pos + 1, 2) IN
                   IF n < 1 \/ n > METADATA_LENGTH_MAX THEN ParseErr("InvalidMetadataFeatureLength")
                   ELSE IF pos + 2 + n > Len(bytes) THEN ParseErr("UnexpectedEOF")
                   ELSE Parsed(Entry(k, n), pos + 3 + n)
         ELSE IF k = TAG THEN
              IF pos + 1 > Len(bytes) THEN ParseErr("UnexpectedEOF")
              ELSE LET n == bytes[pos + 1] IN
                   IF n < 1 \/ n > TAG_LENGTH_MAX THEN ParseErr("InvalidTagFeatureLength")
                   ELSE IF pos + 1 + n > Len(bytes) THEN ParseErr("UnexpectedEOF")
                   ELSE Parsed(Entry(k, n), pos + 2 + n)
         ELSE IF pos + 1 + ADDRESS_LENGTH > Len(bytes) THEN ParseErr("UnexpectedEOF")
         ELSE IF bytes[pos + 1] # ED25519_ADDRESS_KIND THEN ParseErr("InvalidAddressKind")
         ELSE Parsed(Entry(k, bytes[pos + 2]), pos + 2 + ADDRESS_LENGTH)

UnpackNativeToken(bytes, pos) ==
    IF pos + TOKEN_ID_LENGTH + U256_LENGTH - 1 > Len(bytes) THEN ParseErr("UnexpectedEOF")
    ELSE LET a == UnpackUint(bytes, pos + TOKEN_ID_LENGTH, U256_LENGTH) IN
         IF a = 0 THEN ParseErr("NativeTokensNullAmount")
         ELSE Parsed(Entry(bytes[pos], a), pos + TOKEN_ID_LENGTH + U256_LENGTH)

UnpackItem(what, bytes, pos) ==
    CASE what = "native_token" -> UnpackNativeToken(bytes, pos)
      [] what = "unlock_condition" -> UnpackUnlockCondition(bytes, pos)
      [] OTHER -> UnpackFeature(bytes, pos)

RECURSIVE UnpackItems(_, _, _, _)
\* n items from pos on: [ok, err, item: <<the sequence of the items>>, next]
UnpackItems(what, bytes, pos, n) ==
    IF n = 0 THEN Parsed(<<>>, pos)
    ELSE LET first == UnpackItem(what, bytes, pos) IN
         IF ~first.ok THEN first
         ELSE LET rest == UnpackItems(what, bytes, first.next, n - 1) IN
              IF ~rest.ok THEN rest
              ELSE Parsed(first.item \o rest.item[1], rest.next)

\* ------------------------------------------------------------ verification
Ok(o) == [ok |-> TRUE, err |-> "", output |-> <<o>>]
Err(e) == [ok |-> FALSE, err |-> e, output |-> <<>>]

UNLOCK_CONDITION_COUNT_MAX == 7
FEATURE_COUNT_MAX == 4
NATIVE_TOKEN_COUNT_MAX == 64

\* verify_allowed_unlock_conditions / verify_allowed_features: "" or the error
verify_allowed(set, allowed, e) ==
    IF \E i \in 1..Len(set) : set[i].kind \notin allowed THEN e ELSE ""

\* verify_unlock_conditions::<true>
verify_unlock_conditions(unlock_conditions) ==
    IF ~\E i \in 1..Len(unlock_conditions) : unlock_conditions[i].kind = ADDRESS
    THEN "MissingAddressUnlockCondition"
    ELSE verify_allowed(unlock_conditions, ALLOWED_UNLOCK_CONDITIONS, "UnallowedUnlockCondition")

\* verify_features::<true>
verify_features(blocks) == verify_allowed(blocks, ALLOWED_FEATURES, "UnallowedFeature")

\* verify_output_amount::<true>
verify_output_amount(a, token_supply) ==
    IF a < AMOUNT_MIN \/ a > token_supply THEN "InvalidOutputAmount" ELSE ""

\* a faulty unpack_verified: the amount is decoded without its verify_with hook
unpack_verified_no_amount_hook(bytes, token_supply) ==
    LET a == UnpackUint(bytes, 1, 8)
        nt == UnpackItems("native_token", bytes, 11, UnpackUint(bytes, 9, 2))
        uc == UnpackItems("unlock_condition", bytes, nt.next + 1, bytes[nt.next])
        ft == UnpackItems("feature", bytes, uc.next + 1, bytes[uc.next])
    IN  IF ~nt.ok THEN Err(nt.err)
        ELSE IF ~uc.ok THEN Err(uc.err)
        ELSE IF verify_unlock_conditions(uc.item[1]) # "" THEN Err(verify_unlock_conditions(uc.item[1]))
        ELSE IF ~ft.ok THEN Err(ft.err)
        ELSE IF verify_features(ft.item[1]) # "" THEN Err(verify_features(ft.item[1]))
        ELSE Ok([amount |-> a, native_tokens |-> nt.item[1],
                 unlock_conditions |-> uc.item[1], features |-> ft.item[1]])

\* BasicOutput::unpack_verified(bytes, protocol_parameters): the fields are decoded in
\* declaration order, each followed by its verify_with hook
unpack_verified(bytes, token_supply) ==
    IF Len(bytes) < 10 THEN Err("UnexpectedEOF")
    ELSE LET a == UnpackUint(bytes, 1, 8) IN
    IF verify_output_amount(a, token_supply) # "" THEN Err(verify_output_amount(a, token_supply))
    ELSE LET n == UnpackUint(bytes, 9, 2) IN
    IF n > NATIVE_TOKEN_COUNT_MAX THEN Err("InvalidNativeTokenCount")
    ELSE LET nt == UnpackItems("native_token", bytes, 11, n) IN
    IF ~nt.ok THEN Err(nt.err)
    ELSE IF ~IsSortedUnique(nt.item[1]) THEN Err("NativeTokensNotUniqueSorted")
    ELSE IF nt.next > Len(bytes) THEN Err("UnexpectedEOF")
    ELSE IF bytes[nt.next] > UNLOCK_CONDITION_COUNT_MAX THEN Err("InvalidUnlockConditionCount")
    ELSE LET uc == UnpackItems("unlock_condition", bytes, nt.next + 1, bytes[nt.next]) IN
    IF ~uc.ok THEN Err(uc.err)
    ELSE IF ~IsSortedUnique(uc.item[1]) THEN Err("UnlockConditionsNotUniqueSorted")
    ELSE IF verify_unlock_conditions(uc.item[1]) # "" THEN Err(verify_unlock_conditions(uc.item[1]))
    ELSE IF uc.next > Len(bytes) THEN Err("UnexpectedEOF")
    ELSE IF bytes[uc.next] > FEATURE_COUNT_MAX THEN Err("InvalidFeatureCount")
    ELSE LET ft == UnpackItems("feature", bytes, uc.next + 1, bytes[uc.next]) IN
    IF ~ft.ok THEN Err(ft.err)
    ELSE IF ~IsSortedUnique(ft.item[1]) THEN Err("FeaturesNotUniqueSorted")
    ELSE IF verify_features(ft.item[1]) # "" THEN Err(verify_features(ft.item[1]))
    ELSE IF ft.next # Len(bytes) + 1 THEN Err("RemainingBytesAfterOutput")
    ELSE Ok([amount |-> a, native_tokens |-> nt.item[1],
             unlock_conditions |-> uc.item[1], features |-> ft.item[1]])

\* ----------------------------------------------------------------- builder
Amount(a) == [tag |-> "Amount", amount |-> a, rent |-> <<>>]
MinimumStorageDeposit(r) == [tag |-> "MinimumStorageDeposit", amount |-> 0, rent |-> <<r>>]

AmountInputs == {Amount(a) : a \in 0..MaxAmount} \cup {MinimumStorageDeposit(r) : r \in RentStructures}

SetsValidOf(ucs, fs) ==
    /\ \E i \in 1..Len(ucs) : ucs[i].kind = ADDRESS
    /\ \A i \in 1..Len(ucs) : ucs[i].kind \in ALLOWED_UNLOCK_CONDITIONS
    /\ \A i \in 1..Len(fs) : fs[i].kind \in ALLOWED_FEATURES

\* a faulty finish_unverified: the rent is computed before the native tokens are set
finish_unverified_early_rent(b) ==
    LET output == [amount |-> 1, native_tokens |-> <<>>,
                   unlock_conditions |-> b.unlock_conditions, features |-> b.features]
    IN  IF verify_unlock_conditions(b.unlock_conditions) # "" THEN Err(verify_unlock_conditions(b.unlock_conditions))
        ELSE IF verify_features(b.features) # "" THEN Err(verify_features(b.features))
        ELSE Ok([amount |-> IF b.amount.tag = "Amount" THEN b.amount.amount
                            ELSE rent_cost(output, b.amount.rent[1]),
                 native_tokens |-> b.native_tokens,
                 unlock_conditions |-> b.unlock_conditions, features |-> b.features])

\* a faulty finish_unverified: VERIFY = false, the constraint sets are not verified
finish_unverified_no_verify(b) ==
    LET output == [amount |-> 1, native_tokens |-> b.native_tokens,
                   unlock_conditions |-> b.unlock_conditions, features |-> b.features]
    IN  Ok([output EXCEPT !.amount = IF b.amount.tag = "Amount" THEN b.amount.amount
                                     ELSE rent_cost(output, b.amount.rent[1])])

\* a faulty finish_unverified: an amount of 0 is rejected
finish_unverified_rejects_zero(b) ==
    IF ~SetsValidOf(b.unlock_conditions, b.features) THEN Err("InvalidSets")
    ELSE IF b.amount.tag = "Amount" /\ b.amount.amount < AMOUNT_MIN THEN Err("InvalidOutputAmount")
    ELSE finish_unverified_no_verify(b)

\* BasicOutputBuilder::finish_unverified
finish_unverified(b) ==
    IF Len(b.unlock_conditions) > UNLOCK_CONDITION_COUNT_MAX THEN Err("InvalidUnlockConditionCount")
    ELSE IF verify_unlock_conditions(b.unlock_conditions) # ""
         THEN Err(verify_unlock_conditions(b.unlock_conditions))
    ELSE IF Len(b.features) > FEATURE_COUNT_MAX THEN Err("InvalidFeatureCount")
    ELSE IF verify_features(b.features) # "" THEN Err(verify_features(b.features))
    ELSE IF Len(b.native_tokens) > NATIVE_TOKEN_COUNT_MAX THEN Err("InvalidNativeTokenCount")
    ELSE LET output == [amount |-> 1, native_tokens |-> b.native_tokens,
                        unlock_conditions |-> b.unlock_conditions, features |-> b.features]
         IN  Ok([output EXCEPT !.amount =
                    IF b.amount.tag = "Amount" THEN b.amount.amount
                    ELSE rent_cost(output, b.amount.rent[1])])

\* with_unlock_conditions on a builder value: the possible builders after the call
builder_with_unlock_conditions(b, seq) ==
    {[b EXCEPT !.unlock_conditions = set] : set \in Collect(seq)}

\* clear_unlock_conditions on a builder value
builder_clear_unlock_conditions(b) == [b EXCEPT !.unlock_conditions = <<>>]

\* a faulty with_features: the supplied entries are collected with the ones held
builder_with_features_extends(b, seq) ==
    {[b EXCEPT !.features = set] : set \in Collect(b.features \o seq)}

\* with_features on a builder value: the possible builders after the call
builder_with_features(b, seq) ==
    {[b EXCEPT !.features = set] : set \in Collect(seq)}

\* clear_features on a builder value
builder_clear_features(b) == [b EXCEPT !.features = <<>>]

\* a faulty finish: an explicit amount is verified before the sets
finish_amount_first(b, token_supply) ==
    IF b.amount.tag = "Amount" /\ verify_output_amount(b.amount.amount, token_supply) # ""
    THEN Err(verify_output_amount(b.amount.amount, token_supply))
    ELSE LET r == finish_unverified(b)
         IN  IF ~r.ok THEN r
             ELSE IF verify_output_amount(r.output[1].amount, token_supply) # ""
                  THEN Err(verify_output_amount(r.output[1].amount, token_supply))
             ELSE r

\* a faulty finish: an amount equal to the token supply is rejected
finish_strict_supply(b, token_supply) ==
    LET r == finish_unverified(b)
    IN  IF ~r.ok THEN r
        ELSE IF r.output[1].amount < AMOUNT_MIN \/ r.output[1].amount >= token_supply
             THEN Err("InvalidOutputAmount")
        ELSE r

\* a faulty finish: the amount is not verified
finish_no_amount_check(b, token_supply) == finish_unverified(b)

\* BasicOutputBuilder::finish
finish(b, token_supply) ==
    LET r == finish_unverified(b)
    IN  IF ~r.ok THEN r
        ELSE IF verify_output_amount(r.output[1].amount, token_supply) # ""
             THEN Err(verify_output_amount(r.output[1].amount, token_supply))
        ELSE r

\* ------------------------------------------------------------------- state
VARIABLES
    amount,             \* BasicOutputBuilder.amount: the amount policy
    native_tokens,      \* BasicOutputBuilder.native_tokens
    unlock_conditions,  \* BasicOutputBuilder.unlock_conditions
    features,           \* BasicOutputBuilder.features
    pc,                 \* "building", or "finished" once the builder is consumed
    result,             \* the Result of the finishing call
    lastOp,             \* the last builder call and the case it met
    twin,               \* a second builder that is given the same entries in another order
    call                \* a call on a finished value: its name, its arguments, what it returns

vars == <<amount, native_tokens, unlock_conditions, features, pc, result, lastOp, twin, call>>

Builder ==
    [amount |-> amount, native_tokens |-> native_tokens,
     unlock_conditions |-> unlock_conditions, features |-> features]

NoResult == [ok |-> FALSE, err |-> "none", output |-> <<>>, by |-> "", token_supply |-> 0]
NoTwin ==
    [unlock_conditions |-> <<>>, features |-> <<>>, todo |-> {}, todo2 |-> {},
     order |-> <<>>, result |-> NoResult]
NoCall == [op |-> "", arg |-> <<>>, ret |-> <<>>]
Op(name, case) == [op |-> name, case |-> case]

HasKind(set, k) == \E i \in 1..Len(set) : set[i].kind = k

\* the case an add_* or replace_* call meets
CaseOf(set, x) ==
    IF ~HasKind(set, x.kind) THEN "absent" ELSE IF x \in Range(set) THEN "same" ELSE "other"

\* the builder becomes b
Becomes(b) ==
    /\ amount' = b.amount
    /\ native_tokens' = b.native_tokens
    /\ unlock_conditions' = b.unlock_conditions
    /\ features' = b.features

\* the case a with_* call meets: two entries of one kind with different payloads, or not
SeqCase(seq) ==
    IF \E i, j \in 1..Len(seq) : seq[i].kind = seq[j].kind /\ seq[i] # seq[j]
    THEN "dup" ELSE "plain"

\* BasicOutputBuilder::new
Init ==
    /\ amount \in AmountInputs
    /\ native_tokens = <<>>
    /\ unlock_conditions = <<>>
    /\ features = <<>>
    /\ pc = "building"
    /\ result = NoResult
    /\ lastOp = Op("new", "")
    /\ twin = NoTwin
    /\ call = NoCall

with_amount(a) ==
    /\ pc = "building"
    /\ amount' = Amount(a)
    /\ lastOp' = Op("with_amount", "")
    /\ UNCHANGED <<call, twin, native_tokens, unlock_conditions, features, pc, result>>

with_minimum_storage_deposit(rent_structure) ==
    /\ pc = "building"
    /\ amount' = MinimumStorageDeposit(rent_structure)
    /\ lastOp' = Op("with_minimum_storage_deposit", "")
    /\ UNCHANGED <<call, twin, native_tokens, unlock_conditions, features, pc, result>>

add_native_token(native_token) ==
    /\ pc = "building"
    /\ native_tokens' = BTreeInsert(native_tokens, native_token)
    /\ lastOp' = Op("add_native_token", "")
    /\ UNCHANGED <<call, twin, amount, unlock_conditions, features, pc, result>>

with_native_tokens(tokens) ==
    /\ pc = "building"
    /\ native_tokens' \in Collect(tokens)
    /\ lastOp' = Op("with_native_tokens", "")
    /\ UNCHANGED <<call, twin, amount, unlock_conditions, features, pc, result>>

add_unlock_condition(unlock_condition) ==
    /\ pc = "building"
    /\ unlock_conditions' = BTreeInsert(unlock_conditions, unlock_condition)
    /\ lastOp' = Op("add_unlock_condition", CaseOf(unlock_conditions, unlock_condition))
    /\ UNCHANGED <<call, twin, amount, native_tokens, features, pc, result>>

with_unlock_conditions(seq) ==
    /\ pc = "building"
    /\ \E b \in builder_with_unlock_conditions(Builder, seq) : Becomes(b)
    /\ lastOp' = Op("with_unlock_conditions", SeqCase(seq))
    /\ UNCHANGED <<call, twin, pc, result>>

replace_unlock_condition(unlock_condition) ==
    /\ pc = "building"
    /\ unlock_conditions' = BTreeReplace(unlock_conditions, unlock_condition)
    /\ lastOp' = Op("replace_unlock_condition", CaseOf(unlock_conditions, unlock_condition))
    /\ UNCHANGED <<call, twin, amount, native_tokens, features, pc, result>>

clear_unlock_conditions ==
    /\ pc = "building"
    /\ Becomes(builder_clear_unlock_conditions(Builder))
    /\ lastOp' = Op("clear_unlock_conditions", "")
    /\ UNCHANGED <<call, twin, pc, result>>

add_feature(feature) ==
    /\ pc = "building"
    /\ features' = BTreeInsert(features, feature)
    /\ lastOp' = Op("add_feature", CaseOf(features, feature))
    /\ UNCHANGED <<call, twin, amount, native_tokens, unlock_conditions, pc, result>>

with_features(seq) ==
    /\ pc = "building"
    /\ \E b \in builder_with_features(Builder, seq) : Becomes(b)
    /\ lastOp' = Op("with_features", SeqCase(seq))
    /\ UNCHANGED <<call, twin, pc, result>>

replace_feature(feature) ==
    /\ pc = "building"
    /\ features' = BTreeReplace(features, feature)
    /\ lastOp' = Op("replace_feature", CaseOf(features, feature))
    /\ UNCHANGED <<call, twin, amount, native_tokens, unlock_conditions, pc, result>>

clear_features ==
    /\ pc = "building"
    /\ Becomes(builder_clear_features(Builder))
    /\ lastOp' = Op("clear_features", "")
    /\ UNCHANGED <<call, twin, pc, result>>

\* builder.finish_unverified(): the builder is consumed
CallFinishUnverified ==
    /\ pc = "building"
    /\ result' = finish_unverified(Builder) @@ [by |-> "finish_unverified", token_supply |-> 0]
    /\ pc' = "finished"
    /\ lastOp' = Op("finish_unverified", "")
    /\ UNCHANGED <<call, twin, amount, native_tokens, unlock_conditions, features>>

\* builder.finish(token_supply): the builder is consumed
CallFinish(token_supply) ==
    /\ pc = "building"
    /\ result' = finish(Builder, token_supply) @@ [by |-> "finish", token_supply |-> token_supply]
    /\ pc' = "finished"
    /\ lastOp' = Op("finish", "")
    /\ UNCHANGED <<call, twin, amount, native_tokens, unlock_conditions, features>>

Next ==
    \/ \E a \in 0..MaxAmount : with_amount(a)
    \/ \E r \in RentStructures : with_minimum_storage_deposit(r)
    \/ \E t \in NativeTokenInputs : add_native_token(t)
    \/ \E s \in SeqsUpTo2(NativeTokenInputs) : with_native_tokens(s)
    \/ \E u \in UnlockConditionInputs : add_unlock_condition(u)
    \/ \E s \in SeqsUpTo2(UnlockConditionInputs) : with_unlock_conditions(s)
    \/ \E u \in UnlockConditionInputs : replace_unlock_condition(u)
    \/ clear_unlock_conditions
    \/ \E f \in FeatureInputs : add_feature(f)
    \/ \E s \in SeqsUpTo2(FeatureInputs) : with_features(s)
    \/ \E f \in FeatureInputs : replace_feature(f)
    \/ clear_features
    \/ CallFinishUnverified
    \/ \E t \in TokenSupplies : CallFinish(t)

Spec == Init /\ [][Next]_vars

\* ------------------------------------------------- two builders, two orders
\* entries a pair of builders is given
MaxEntries == 3

Tagged(set, e) == [set |-> set, entry |-> e]
TaggedInputs ==
    {Tagged("unlock_condition", u) : u \in UnlockConditionInputs}
      \cup {Tagged("feature", f) : f \in FeatureInputs}

\* the sets of at most MaxEntries entries of pairwise distinct kinds
EntrySets ==
    {S \in SUBSET TaggedInputs :
        /\ Cardinality(S) <= MaxEntries
        /\ \A x, y \in S : (x.set = y.set /\ x.entry.kind = y.entry.kind) => x = y}

Key(x) == (IF x.set = "feature" THEN 10 ELSE 0) + x.entry.kind
\* the entry the second builder is given next: features first, kinds descending
Last(S) == CHOOSE x \in S : \A y \in S : Key(y) <= Key(x)

RECURSIVE Descending(_)
Descending(S) == IF S = {} THEN <<>> ELSE <<Last(S)>> \o Descending(S \ {Last(S)})

TwinBuilder ==
    [amount |-> amount, native_tokens |-> native_tokens,
     unlock_conditions |-> twin.unlock_conditions, features |-> twin.features]

InitOrder ==
    /\ amount \in AmountInputs
    /\ native_tokens \in {<<>>} \cup {<<t>> : t \in NativeTokenInputs}
    /\ unlock_conditions = <<>>
    /\ features = <<>>
    /\ pc = "building"
    /\ result = NoResult
    /\ lastOp = Op("new", "")
    /\ twin \in {[NoTwin EXCEPT !.todo = S, !.todo2 = S] : S \in EntrySets}
    /\ call = NoCall

\* the first builder is given one of the entries it has not been given yet:
\* builder.add_unlock_condition(x) or builder.add_feature(x)
AddFirst(x) ==
    /\ pc = "building"
    /\ x \in twin.todo
    /\ IF x.set = "unlock_condition"
       THEN /\ unlock_conditions' = BTreeInsert(unlock_conditions, x.entry)
            /\ lastOp' = Op("add_unlock_condition", CaseOf(unlock_conditions, x.entry))
            /\ UNCHANGED features
       ELSE /\ features' = BTreeInsert(features, x.entry)
            /\ lastOp' = Op("add_feature", CaseOf(features, x.entry))
            /\ UNCHANGED unlock_conditions
    /\ twin' = [twin EXCEPT !.todo = @ \ {x}, !.order = Append(@, x)]
    /\ UNCHANGED <<call, amount, native_tokens, pc, result>>

\* the second builder is given its next entry
AddSecond ==
    /\ pc = "building"
    /\ twin.todo = {}
    /\ twin.todo2 # {}
    /\ LET x == Last(twin.todo2) IN
       twin' = IF x.set = "unlock_condition"
               THEN [twin EXCEPT !.unlock_conditions = BTreeInsert(@, x.entry), !.todo2 = @ \ {x}]
               ELSE [twin EXCEPT !.features = BTreeInsert(@, x.entry), !.todo2 = @ \ {x}]
    /\ UNCHANGED <<call, amount, native_tokens, unlock_conditions, features, pc, result, lastOp>>

\* both builders are finished by finish_unverified
FinishBothUnverified ==
    /\ pc = "building"
    /\ twin.todo = {} /\ twin.todo2 = {}
    /\ result' = finish_unverified(Builder) @@ [by |-> "finish_unverified", token_supply |-> 0]
    /\ twin' = [twin EXCEPT !.result =
                   finish_unverified(TwinBuilder) @@ [by |-> "finish_unverified", token_supply |-> 0]]
    /\ pc' = "finished"
    /\ lastOp' = Op("finish_unverified", "")
    /\ UNCHANGED <<call, amount, native_tokens, unlock_conditions, features>>

\* both builders are finished by finish(token_supply)
FinishBoth(token_supply) ==
    /\ pc = "building"
    /\ twin.todo = {} /\ twin.todo2 = {}
    /\ result' = finish(Builder, token_supply) @@ [by |-> "finish", token_supply |-> token_supply]
    /\ twin' = [twin EXCEPT !.result =
                   finish(TwinBuilder, token_supply) @@ [by |-> "finish", token_supply |-> token_supply]]
    /\ pc' = "finished"
    /\ lastOp' = Op("finish", "")
    /\ UNCHANGED <<call, amount, native_tokens, unlock_conditions, features>>

NextOrder ==
    \/ \E x \in TaggedInputs : AddFirst(x)
    \/ AddSecond
    \/ FinishBothUnverified
    \/ \E t \in TokenSupplies : FinishBoth(t)

SpecOrder == InitOrder /\ [][NextOrder]_vars

\* ------------------------------------------------ calls on a finished output
\* a faulty simple_deposit_address: the features are not looked at
simple_deposit_address_ignores_features(o) ==
    IF Len(o.unlock_conditions) = 1 /\ o.unlock_conditions[1].kind = ADDRESS
    THEN IF o.native_tokens = <<>>
         THEN <<o.unlock_conditions[1].data>>
         ELSE <<>>
    ELSE <<>>

\* BasicOutput::simple_deposit_address: <<the address>> for Some, <<>> for None
simple_deposit_address(o) ==
    IF Len(o.unlock_conditions) = 1 /\ o.unlock_conditions[1].kind = ADDRESS
    THEN IF o.native_tokens = <<>> /\ o.features = <<>>
         THEN <<o.unlock_conditions[1].data>>
         ELSE <<>>
    ELSE <<>>

\* BasicOutput::address: the address of the address unlock condition
address(o) ==
    (CHOOSE u \in Range(o.unlock_conditions) : u.kind = ADDRESS).data

\* an expiration unlock condition carries a return address and a timestamp, a
\* timelock a timestamp
return_address(e) == e.data
timestamp(e) == e.data

\* UnlockConditions::locked_address: the address the proof has to authorize.  It is
\* an address of the output (its result is unlocked with the proof): the return
\* address of an expiration that is reached, else the given address.
locked_address(unlock_conditions_, address_, milestone_timestamp) ==
    IF \E e \in Range(unlock_conditions_) :
           e.kind = EXPIRATION /\ milestone_timestamp >= timestamp(e)
    THEN return_address(CHOOSE e \in Range(unlock_conditions_) : e.kind = EXPIRATION)
    ELSE address_

Context(ts, unlocked) == [milestone_timestamp |-> ts, unlocked_addresses |-> unlocked]
Signature(d) == [kind |-> "signature", signer |-> d]
Reference == [kind |-> "reference", signer |-> 0]

UnlockOk(context) == [ok |-> TRUE, err |-> "", context |-> context]
UnlockErr(e, context) == [ok |-> FALSE, err |-> e, context |-> context]

\* Address::unlock: a signature unlocks an address not unlocked before that it is
\* made for, and records it; a reference unlocks an address unlocked before
address_unlock(a, unlock_, context) ==
    IF unlock_.kind = "signature"
    THEN IF a \in context.unlocked_addresses THEN UnlockErr("InvalidInputUnlock", context)
         ELSE IF unlock_.signer # a THEN UnlockErr("InvalidUnlockSignature", context)
         ELSE UnlockOk([context EXCEPT !.unlocked_addresses = @ \cup {a}])
    ELSE IF a \notin context.unlocked_addresses THEN UnlockErr("InvalidInputUnlock", context)
         ELSE UnlockOk(context)

\* a faulty unlock: the expiration is not looked at
unlock_ignores_expiration(o, unlock_, context) ==
    address_unlock(address(o), unlock_, context)

\* BasicOutput::unlock
unlock(o, unlock_, context) ==
    address_unlock(
        locked_address(o.unlock_conditions, address(o), context.milestone_timestamp),
        unlock_, context)

\* a faulty from: the builder gets a minimum storage deposit policy
from_output_minimum_deposit(o) ==
    {[amount |-> MinimumStorageDeposit(r), native_tokens |-> o.native_tokens,
      unlock_conditions |-> o.unlock_conditions, features |-> o.features] :
        r \in RentStructures}

\* BasicOutputBuilder::from(&BasicOutput): the possible builders
from_output(o) ==
    {[amount |-> Amount(o.amount), native_tokens |-> nt,
      unlock_conditions |-> uc, features |-> ft] :
        nt \in Collect(o.native_tokens),
        uc \in Collect(o.unlock_conditions),
        ft \in Collect(o.features)}

MilestoneTimestamps == {0, 1, 2}
UnlockInputs == {Signature(d) : d \in 1..MaxData} \cup {Reference}
UnlockedInputs == {{}, {1}}

Call(op, arg, ret) == [op |-> op, arg |-> arg, ret |-> ret]

\* output.simple_deposit_address()
call_simple_deposit_address ==
    /\ pc = "finished"
    /\ result.ok
    /\ call' = Call("simple_deposit_address", <<>>, simple_deposit_address(result.output[1]))
    /\ pc' = "called"
    /\ UNCHANGED <<amount, native_tokens, unlock_conditions, features, result, lastOp, twin>>

\* output.unlock(output_id, unlock, inputs, context)
call_unlock(unlock_, context) ==
    /\ pc = "finished"
    /\ result.ok
    /\ call' = Call("unlock", <<unlock_, context>>, <<unlock(result.output[1], unlock_, context)>>)
    /\ pc' = "called"
    /\ UNCHANGED <<amount, native_tokens, unlock_conditions, features, result, lastOp, twin>>

\* BasicOutputBuilder::from(&output).finish_unverified()
call_from ==
    /\ pc = "finished"
    /\ result.ok
    /\ \E b \in from_output(result.output[1]) :
           call' = Call("from", <<b>>, <<finish_unverified(b)>>)
    /\ pc' = "called"
    /\ UNCHANGED <<amount, native_tokens, unlock_conditions, features, result, lastOp, twin>>

NextOutput ==
    \/ Next
    \/ call_simple_deposit_address
    \/ \E u \in UnlockInputs, ts \in MilestoneTimestamps, un \in UnlockedInputs :
           call_unlock(u, Context(ts, un))
    \/ call_from

SpecOutput == Init /\ [][NextOutput]_vars

\* ------------------------------------------------------------ TagFeature
MaxTagLength == 66

TAG_LENGTH_MIN == 1
U8_MAX == 255

\* TagFeature(BoxedSlicePrefix<u8, TagFeatureLength>): the boxed bytes
TagFeature(bytes) == [boxed |-> bytes]

\* a faulty try_from: the length is cast to the u8 prefix and wraps
tag_try_from_wrapping(bytes) ==
    IF Len(bytes) % (U8_MAX + 1) \in TAG_LENGTH_MIN..TAG_LENGTH_MAX
    THEN Ok(TagFeature(bytes))
    ELSE Err("InvalidTagFeatureLength")

\* TryFrom<Vec<u8>> for TagFeature: the length has to convert to the bounded u8
\* prefix, that is to fit a u8 and to lie in LENGTH_RANGE
tag_try_from(bytes) ==
    IF Len(bytes) > U8_MAX THEN Err("InvalidTagFeatureLength")
    ELSE IF Len(bytes) \notin TAG_LENGTH_MIN..TAG_LENGTH_MAX THEN Err("InvalidTagFeatureLength")
    ELSE Ok(TagFeature(bytes))

\* TagFeature::new
tag_new(bytes) == tag_try_from(bytes)

\* TagFeature::tag
tag(t) == t.boxed

TagLengths == (0..MaxTagLength) \cup {U8_MAX + 1 + n : n \in {0, 1, TAG_LENGTH_MAX}}
TagFills == {0, 200}
TagPayload(n, fill) == [i \in 1..n |-> (fill + i) % (U8_MAX + 1)]
TagInputs == {TagPayload(n, fill) : n \in TagLengths, fill \in TagFills}

\* a payload is at hand
InitTag ==
    /\ amount = Amount(0)
    /\ native_tokens = <<>>
    /\ unlock_conditions = <<>>
    /\ features = <<>>
    /\ pc = "tag"
    /\ result = NoResult
    /\ lastOp = Op("", "")
    /\ twin = NoTwin
    /\ \E bytes \in TagInputs : call = Call("", <<bytes>>, <<>>)

\* TagFeature::new(payload)
CallTagNew ==
    /\ pc = "tag"
    /\ call' = Call("new", call.arg, <<tag_new(call.arg[1])>>)
    /\ pc' = "called"
    /\ UNCHANGED <<amount, native_tokens, unlock_conditions, features, result, lastOp, twin>>

\* TagFeature::try_from(payload)
CallTagTryFrom ==
    /\ pc = "tag"
    /\ call' = Call("try_from", call.arg, <<tag_try_from(call.arg[1])>>)
    /\ pc' = "called"
    /\ UNCHANGED <<amount, native_tokens, unlock_conditions, features, result, lastOp, twin>>

NextTag == CallTagNew \/ CallTagTryFrom

SpecTag == InitTag /\ [][NextTag]_vars

\* ---------------------------------------------------------- AliasAddress
MaxSeed == 40

ALIAS_ADDRESS_KIND == 8
ALIAS_ID_LENGTH == 32
ALIAS_ADDRESS_LENGTH == ALIAS_ID_LENGTH

\* a string is the sequence of its characters
HexDigits == <<"0", "1", "2", "3", "4", "5", "6", "7", "8", "9", "a", "b", "c", "d", "e", "f">>
UpperHexDigits == <<"0", "1", "2", "3", "4", "5", "6", "7", "8", "9", "A", "B", "C", "D", "E", "F">>
HexPrefix == <<"0", "x">>

\* the value of a hexadecimal digit of either case, -1 for any other character
HexValue(c) ==
    IF \E v \in 1..16 : HexDigits[v] = c THEN (CHOOSE v \in 1..16 : HexDigits[v] = c) - 1
    ELSE IF \E v \in 1..16 : UpperHexDigits[v] = c
         THEN (CHOOSE v \in 1..16 : UpperHexDigits[v] = c) - 1
    ELSE -1

RECURSIVE HexEncode(_)
\* two lowercase digits for each byte
HexEncode(bytes) ==
    IF bytes = <<>> THEN <<>>
    ELSE <<HexDigits[(bytes[1] \div 16) + 1], HexDigits[(bytes[1] % 16) + 1]>>
             \o HexEncode(Tail(bytes))

\* the bytes of an even number of hexadecimal digits
HexDecode(digits) ==
    [i \in 1..(Len(digits) \div 2) |->
        16 * HexValue(digits[2 * i - 1]) + HexValue(digits[2 * i])]

\* Display for AliasId: the prefix and the lowercase digits of the 32 bytes
alias_id_to_string(id) == HexPrefix \o HexEncode(id)

\* FromStr for AliasId: a prefixed string of the digits of 32 bytes
alias_id_from_str(str) ==
    IF Len(str) < 2 \/ SubSeq(str, 1, 2) # HexPrefix THEN Err("InvalidHexPrefix")
    ELSE LET digits == SubSeq(str, 3, Len(str))
         IN  IF Len(digits) % 2 # 0 THEN Err("InvalidHexLength")
             ELSE IF \E i \in 1..Len(digits) : HexValue(digits[i]) < 0
                  THEN Err("InvalidHexCharacter")
             ELSE IF Len(digits) # 2 * ALIAS_ID_LENGTH THEN Err("InvalidHexLength")
             ELSE Ok(HexDecode(digits))

\* AliasAddress(AliasId)
AliasAddress(id) == [id |-> id]

\* AliasAddress::new
alias_new(id) == AliasAddress(id)

\* AliasAddress::alias_id
alias_id(a) == a.id

\* AliasAddress::into_alias_id
into_alias_id(a) == a.id

\* FromStr for AliasAddress
alias_from_str(str) ==
    LET r == alias_id_from_str(str)
    IN  IF r.ok THEN Ok(alias_new(r.output[1])) ELSE r

\* a faulty Display: the form of Debug
alias_to_string_debug(a) ==
    <<"A", "l", "i", "a", "s", "A", "d", "d", "r", "e", "s", "s", "(">>
        \o alias_id_to_string(a.id) \o <<")">>

\* Display for AliasAddress
alias_to_string(a) == alias_id_to_string(a.id)

\* Packable for AliasId: the 32 bytes
pack_alias_id(id) == id

\* unpacking an AliasId at pos
unpack_alias_id(bytes, pos) ==
    IF Len(bytes) < pos + ALIAS_ID_LENGTH - 1 THEN ParseErr("UnexpectedEOF")
    ELSE Parsed(SubSeq(bytes, pos, pos + ALIAS_ID_LENGTH - 1), pos + ALIAS_ID_LENGTH)

\* a faulty Packable for AliasAddress: the kind is written first
pack_alias_address_prefixed(a) == <<ALIAS_ADDRESS_KIND>> \o pack_alias_id(a.id)

\* Packable for AliasAddress (derived): its one field
pack_alias_address(a) == pack_alias_id(a.id)

\* AliasAddress::unpack_verified
unpack_alias_address(bytes) ==
    LET r == unpack_alias_id(bytes, 1)
    IN  IF r.ok THEN Ok(AliasAddress(r.item[1])) ELSE Err(r.err)

\* Address::Alias(a)
AddressAlias(a) == [kind |-> ALIAS_ADDRESS_KIND, address |-> a]

\* Packable for Address, the alias variant: the kind byte, then the address
pack_address(address_) == <<address_.kind>> \o pack_alias_address(address_.address)

\* Address::unpack_verified, the alias variant
unpack_address(bytes) ==
    IF Len(bytes) < 1 THEN Err("UnexpectedEOF")
    ELSE IF bytes[1] # ALIAS_ADDRESS_KIND THEN Err("InvalidAddressKind")
    ELSE LET r == unpack_alias_id(bytes, 2)
         IN  IF r.ok THEN Ok(AddressAlias(AliasAddress(r.item[1]))) ELSE Err(r.err)

\* PackableExt::packed_len: the number of bytes pack writes
packed_len(bytes) == Len(bytes)

\* the identifier of the tests, as a string
ALIAS_ID ==
    <<"0", "x", "e", "9", "b", "a", "8", "0", "a", "d", "1", "5", "6", "1", "e", "4", "3", "7", "b", "6", "6", "3",
       "a", "1", "f", "1", "e", "f", "b", "f", "a", "b", "d", "5", "4", "4", "b", "0", "d", "7", "d", "a", "7", "b",
       "b", "3", "3", "e", "0", "a", "6", "2", "e", "9", "9", "b", "2", "0", "e", "e", "4", "5", "0", "b", "e", "e">>

AliasIdOf(seed) == [i \in 1..ALIAS_ID_LENGTH |-> (seed * 53 + i * seed) % 256]
AliasIds ==
    {AliasIdOf(seed) : seed \in 0..MaxSeed}
        \cup {Bytes(255, ALIAS_ID_LENGTH), alias_id_from_str(ALIAS_ID).output[1]}

\* a string with its digits in upper case
Upper(str) ==
    [i \in 1..Len(str) |->
        IF i > 2 /\ HexValue(str[i]) >= 0 THEN UpperHexDigits[HexValue(str[i]) + 1] ELSE str[i]]

AliasStrings ==
    {alias_id_to_string(id) : id \in AliasIds}
        \cup {Upper(ALIAS_ID), SubSeq(ALIAS_ID, 3, Len(ALIAS_ID)),
              SubSeq(ALIAS_ID, 1, Len(ALIAS_ID) - 2), SubSeq(ALIAS_ID, 1, Len(ALIAS_ID) - 1),
              [ALIAS_ID EXCEPT ![3] = "g"], ALIAS_ID \o <<"0", "0">>, <<>>}

\* an identifier or a string is at hand
InitAlias ==
    /\ amount = Amount(0)
    /\ native_tokens = <<>>
    /\ unlock_conditions = <<>>
    /\ features = <<>>
    /\ pc = "alias"
    /\ result = NoResult
    /\ lastOp = Op("", "")
    /\ twin = NoTwin
    /\ \/ \E id \in AliasIds : call = Call("id", <<id>>, <<>>)
       \/ \E str \in AliasStrings : call = Call("str", <<str>>, <<>>)

\* AliasAddress::from_str(&AliasAddress::new(id).to_string()), with alias_id() and
\* into_alias_id()
CallNewToString ==
    /\ pc = "alias"
    /\ call.op = "id"
    /\ LET a == alias_new(call.arg[1])
           str == alias_to_string(a)
       IN  call' = Call("new_to_string", call.arg,
                        <<[new |-> a, to_string |-> str, from_str |-> alias_from_str(str),
                           alias_id |-> alias_id(a), into_alias_id |-> into_alias_id(a)]>>)
    /\ pc' = "called"
    /\ UNCHANGED <<amount, native_tokens, unlock_conditions, features, result, lastOp, twin>>

\* AliasAddress::from_str(s), and to_string() of the address if there is one
CallFromStr ==
    /\ pc = "alias"
    /\ call.op = "str"
    /\ LET r == alias_from_str(call.arg[1])
       IN  call' = Call("from_str", call.arg,
                        <<[from_str |-> r,
                           to_string |-> IF r.ok THEN <<alias_to_string(r.output[1])>> ELSE <<>>]>>)
    /\ pc' = "called"
    /\ UNCHANGED <<amount, native_tokens, unlock_conditions, features, result, lastOp, twin>>

\* pack_to_vec(), packed_len() and unpack_verified() of AliasAddress::new(id), as it
\* is and as an Address
CallPack ==
    /\ pc = "alias"
    /\ call.op = "id"
    /\ LET a == alias_new(call.arg[1])
           bytes == pack_alias_address(a)
           address_bytes == pack_address(AddressAlias(a))
       IN  call' = Call("pack", call.arg,
                        <<[new |-> a,
                           packed |-> bytes,
                           packed_len |-> packed_len(pack_alias_address(a)),
                           unpacked |-> unpack_alias_address(bytes),
                           address_packed |-> address_bytes,
                           address_packed_len |-> packed_len(pack_address(AddressAlias(a))),
                           address_unpacked |-> unpack_address(address_bytes)]>>)
    /\ pc' = "called"
    /\ UNCHANGED <<amount, native_tokens, unlock_conditions, features, result, lastOp, twin>>

NextAlias == CallNewToString \/ CallFromStr \/ CallPack

SpecAlias == InitAlias /\ [][NextAlias]_vars

\* ------------------------------------------------------------------ claims
AtMostOnePerKind(s) == \A i, j \in 1..Len(s) : s[i].kind = s[j].kind => i = j

OutputOnePerKind(r) ==
    r.ok => /\ AtMostOnePerKind(r.output[1].unlock_conditions)
            /\ AtMostOnePerKind(r.output[1].features)

\* the constraint sets of builder b pass Basic's verification
SetsValid(b) ==
    /\ HasKind(b.unlock_conditions, ADDRESS)
    /\ Kinds(b.unlock_conditions) \subseteq ALLOWED_UNLOCK_CONDITIONS
    /\ Kinds(b.features) \subseteq ALLOWED_FEATURES

AddEffect(old, new, x) ==
    IF HasKind(old, x.kind) THEN new = old
    ELSE Range(new) = Range(old) \cup {x} /\ Len(new) = Len(old) + 1

\* C2: add_feature and add_unlock_condition change nothing (not the set, not what the
\* builder finishes to) when an entry of the kind is held, insert the entry when
\* none is, and leave the other set, the native tokens and the amount policy alone.
C2_AddKeepsExisting ==
    [][/\ lastOp'.op = "add_feature" => \A f \in FeatureInputs :
            add_feature(f) =>
                /\ AddEffect(features, features', f)
                /\ HasKind(features, f.kind) => finish_unverified(Builder') = finish_unverified(Builder)
                /\ UNCHANGED <<amount, native_tokens, unlock_conditions>>
       /\ lastOp'.op = "add_unlock_condition" => \A u \in UnlockConditionInputs :
            add_unlock_condition(u) =>
                /\ AddEffect(unlock_conditions, unlock_conditions', u)
                /\ HasKind(unlock_conditions, u.kind) => finish_unverified(Builder') = finish_unverified(Builder)
                /\ UNCHANGED <<amount, native_tokens, features>>]_vars

C2_Witness ==
    /\ lastOp = Op("add_feature", "other")
    /\ \E d \in 1..MaxData : Entry(SENDER, d) \in Range(features)
    /\ finish_unverified(Builder).ok

\* what a replace_* call does to the set it is about
ReplaceEffect(old, new, x) ==
    /\ x \in Range(new)
    /\ \A e \in Range(new) : e.kind = x.kind => e = x
    /\ {e \in Range(new) : e.kind # x.kind} = {e \in Range(old) : e.kind # x.kind}
    /\ AtMostOnePerKind(new)

\* C3: after replace_feature(x) / replace_unlock_condition(x) the set holds x as its
\* only entry of x's kind, whether or not an entry of that kind was held, the entries
\* of the other kinds are the same, and an output finished from the builder carries x.
C3_ReplaceOverwrites ==
    [][/\ lastOp'.op = "replace_feature" => \A f \in FeatureInputs :
            replace_feature(f) =>
                /\ ReplaceEffect(features, features', f)
                /\ finish_unverified(Builder').ok =>
                       f \in Range(finish_unverified(Builder').output[1].features)
                /\ UNCHANGED <<amount, native_tokens, unlock_conditions>>
       /\ lastOp'.op = "replace_unlock_condition" => \A u \in UnlockConditionInputs :
            replace_unlock_condition(u) =>
                /\ ReplaceEffect(unlock_conditions, unlock_conditions', u)
                /\ finish_unverified(Builder').ok =>
                       u \in Range(finish_unverified(Builder').output[1].unlock_conditions)
                /\ UNCHANGED <<amount, native_tokens, features>>]_vars

C3_Witness ==
    /\ lastOp = Op("replace_feature", "other")
    /\ HasKind(features, SENDER)
    /\ Len(features) > 1
    /\ finish_unverified(Builder).ok

\* C4: a finishing call fails unless the unlock conditions hold an address condition
\* and only allowed kinds and the features hold only allowed kinds: without an address
\* condition the error is MissingAddressUnlockCondition, with a disallowed kind it is
\* the allow-list error, and a failing call returns no output.
C4_FinishVerifiesSets ==
    pc = "finished" =>
        /\ ~HasKind(unlock_conditions, ADDRESS) =>
               ~result.ok /\ result.err = "MissingAddressUnlockCondition"
        /\ (HasKind(unlock_conditions, ADDRESS)
              /\ ~(Kinds(unlock_conditions) \subseteq ALLOWED_UNLOCK_CONDITIONS)) =>
               ~result.ok /\ result.err = "UnallowedUnlockCondition"
        /\ (HasKind(unlock_conditions, ADDRESS)
              /\ Kinds(unlock_conditions) \subseteq ALLOWED_UNLOCK_CONDITIONS
              /\ ~(Kinds(features) \subseteq ALLOWED_FEATURES)) =>
               ~result.ok /\ result.err = "UnallowedFeature"
        /\ ~SetsValid(Builder) => ~result.ok
        /\ ~result.ok => result.output = <<>>

C4_Witness ==
    /\ pc = "finished"
    /\ result.by = "finish_unverified"
    /\ HasKind(unlock_conditions, ADDRESS)
    /\ HasKind(unlock_conditions, GOVERNOR_ADDRESS)
    /\ result.err = "UnallowedUnlockCondition"

\* C5 as stated: finish_unverified returns an output for any working sets.
C5_UnverifiedAlwaysReturns ==
    (pc = "finished" /\ result.by = "finish_unverified") => result.ok

\* C5 as amended: finish_unverified skips the amount check only; it returns an output
\* exactly when the unlock conditions hold an address condition and both sets hold
\* only allowed kinds, whatever the amount (0 included).
C5_UnverifiedSkipsAmountOnly ==
    (pc = "finished" /\ result.by = "finish_unverified") =>
        /\ result.ok <=> SetsValid(Builder)
        /\ (result.ok /\ amount.tag = "Amount") => result.output[1].amount = amount.amount

C5_Witness ==
    /\ pc = "finished"
    /\ result.by = "finish_unverified"
    /\ result.ok
    /\ result.output[1].amount = 0

\* C6: finish(token_supply) fails whenever the amount finish_unverified resolves is 0
\* or above token_supply, returns what finish_unverified returns whenever that is an
\* output with 1 <= amount <= token_supply, and finish_unverified itself returns an
\* output with amount 0 when the sets are valid.
C6_FinishVerifiesAmount ==
    pc = "finished" =>
        LET u == finish_unverified(Builder) IN
        /\ result.by = "finish" =>
             /\ (u.ok /\ (u.output[1].amount = 0 \/ u.output[1].amount > result.token_supply)) =>
                    ~result.ok /\ result.err = "InvalidOutputAmount"
             /\ (u.ok /\ 1 <= u.output[1].amount /\ u.output[1].amount <= result.token_supply) =>
                    result.ok /\ result.output = u.output
             /\ ~u.ok => ~result.ok /\ result.err = u.err
        /\ (result.by = "finish_unverified" /\ SetsValid(Builder) /\ amount = Amount(0)) =>
               result.ok /\ result.output[1].amount = 0

C6_Witness ==
    /\ pc = "finished"
    /\ result.by = "finish"
    /\ amount.tag = "Amount"
    /\ amount.amount > result.token_supply
    /\ result.err = "InvalidOutputAmount"

\* C7: under the minimum storage deposit policy with rent structure r, the amount of
\* a returned output is the rent cost of that very output (the one carrying the
\* computed amount) under r.
C7_AmountIsRentCost ==
    (pc = "finished" /\ result.ok /\ amount.tag = "MinimumStorageDeposit") =>
        result.output[1].amount = rent_cost(result.output[1], amount.rent[1])

C7_Witness ==
    /\ pc = "finished"
    /\ result.by = "finish"
    /\ result.ok
    /\ amount.tag = "MinimumStorageDeposit"
    /\ native_tokens # <<>>
    /\ features # <<>>
    /\ result.output[1].amount > 256

\* C8: an output returned by finish, packed and unpacked under protocol parameters
\* whose token supply is at least its amount, comes back equal.
C8_PackUnpackRoundTrip ==
    (pc = "finished" /\ result.by = "finish" /\ result.ok) =>
        \A t \in TokenSupplies :
            t >= result.output[1].amount =>
                unpack_verified(PackBasicOutput(result.output[1]), t) = Ok(result.output[1])

C8_Witness ==
    /\ pc = "finished"
    /\ result.by = "finish"
    /\ result.ok
    /\ Len(unlock_conditions) > 1
    /\ Len(features) > 1
    /\ native_tokens # <<>>

\* the fields of an explicit-amount builder as the fields of an output
Fields(b) ==
    [amount |-> b.amount.amount, native_tokens |-> b.native_tokens,
     unlock_conditions |-> b.unlock_conditions, features |-> b.features]

\* C9: for an explicit amount and any token supply, finish succeeds exactly when
\* unpack_verified of the encoding of the same fields succeeds; decoding rejects
\* amount 0, an amount above the supply, a missing address unlock condition and kinds
\* outside the allow-lists.
C9_BuilderAndDecoderAgree ==
    (pc = "building" /\ amount.tag = "Amount") =>
        \A t \in TokenSupplies :
            LET d == unpack_verified(PackBasicOutput(Fields(Builder)), t) IN
            /\ finish(Builder, t).ok <=> d.ok
            /\ (amount.amount = 0 \/ amount.amount > t) => d.err = "InvalidOutputAmount"
            /\ ~SetsValid(Builder) => ~d.ok

C9_Witness ==
    /\ pc = "building"
    /\ amount = Amount(0)
    /\ SetsValid(Builder)
    /\ Len(features) > 0
    /\ ~unpack_verified(PackBasicOutput(Fields(Builder)), LargeSupply).ok

IsAscending(s) == \A i \in 1..(Len(s) - 1) : s[i].kind < s[i + 1].kind

\* C10: two builders given the same unlock conditions and features of pairwise
\* distinct kinds through add_* calls in different orders, with one amount policy and
\* the same native tokens, finish alike; the outputs are equal, their unlock
\* conditions and features ascend by kind, and they pack to the same bytes.
C10_OrderInsensitive ==
    (pc = "finished" /\ twin.order # <<>>) =>
        /\ twin.result = result
        /\ result.ok =>
             /\ IsAscending(result.output[1].unlock_conditions)
             /\ IsAscending(result.output[1].features)
             /\ Range(result.output[1].unlock_conditions)
                  = {x.entry : x \in {y \in Range(twin.order) : y.set = "unlock_condition"}}
             /\ Range(result.output[1].features)
                  = {x.entry : x \in {y \in Range(twin.order) : y.set = "feature"}}
             /\ PackBasicOutput(twin.result.output[1]) = PackBasicOutput(result.output[1])

C10_Witness ==
    /\ pc = "finished"
    /\ result.ok
    /\ Len(twin.order) = MaxEntries
    /\ twin.order # Descending(Range(twin.order))
    /\ \E i \in 1..(Len(twin.order) - 1) : Key(twin.order[i]) > Key(twin.order[i + 1])
    /\ Len(result.output[1].unlock_conditions) > 1
    /\ Len(result.output[1].features) > 0

\* the unlock conditions are a single address unlock condition, and there are no
\* native tokens and no features
IsSimpleDeposit(o) ==
    /\ Kinds(o.unlock_conditions) = {ADDRESS}
    /\ Len(o.unlock_conditions) = 1
    /\ Len(o.native_tokens) = 0
    /\ Len(o.features) = 0

\* C11: simple_deposit_address returns Some(a) exactly when the unlock conditions of
\* the output are a single address unlock condition with address a and the output has
\* no native tokens and no features; for every other shape it returns None; the call
\* returns a value for every output and leaves the output as it was.
C11_SimpleDepositAddress ==
    [][call'.op = "simple_deposit_address" =>
          LET o == result.output[1] IN
          /\ result' = result
          /\ IsSimpleDeposit(o) =>
                 /\ Len(call'.ret) = 1
                 /\ Entry(ADDRESS, call'.ret[1]) \in Range(o.unlock_conditions)
          /\ ~IsSimpleDeposit(o) => call'.ret = <<>>]_vars

C11_Witness ==
    /\ call.op = "simple_deposit_address"
    /\ call.ret = <<MaxData>>
    /\ result.by = "finish"

\* the timelock of the output has not elapsed at the milestone timestamp
TimelockNotElapsed(o, context) ==
    \E t \in Range(o.unlock_conditions) :
        t.kind = TIMELOCK /\ context.milestone_timestamp < t.data

GatingAddress(o, context) ==
    IF \E e \in Range(o.unlock_conditions) :
           e.kind = EXPIRATION /\ e.data <= context.milestone_timestamp
    THEN CHOOSE a \in 1..MaxData : Entry(EXPIRATION, a) \in Range(o.unlock_conditions)
    ELSE CHOOSE a \in 1..MaxData : Entry(ADDRESS, a) \in Range(o.unlock_conditions)

\* the unlock authorizes the address in the context
Authorizes(unlock_, a, context) ==
    IF unlock_.kind = "signature"
    THEN unlock_.signer = a /\ a \notin context.unlocked_addresses
    ELSE a \in context.unlocked_addresses

C18_FromOutputIsIdentity ==
    call.op = "from" =>
        LET o == result.output[1]
            b == call.arg[1]
        IN  /\ call.ret[1] = Ok(o)
            /\ b.amount = Amount(o.amount)
            /\ \A f \in FeatureInputs :
                   \A set \in {BTreeInsert(b.features, f), BTreeReplace(b.features, f)} :
                       LET r == finish_unverified([b EXCEPT !.features = set])
                       IN  r.ok => r.output[1].amount = o.amount
            /\ \A u \in UnlockConditionInputs :
                   \A set \in {BTreeInsert(b.unlock_conditions, u),
                               BTreeReplace(b.unlock_conditions, u)} :
                       LET r == finish_unverified([b EXCEPT !.unlock_conditions = set])
                       IN  r.ok => r.output[1].amount = o.amount

C18_Witness ==
    /\ call.op = "from"
    /\ result.by = "finish_unverified"
    /\ amount.tag = "MinimumStorageDeposit"
    /\ Len(result.output[1].unlock_conditions) = 3
    /\ result.output[1].features # <<>>
    /\ call.ret[1].ok

\* the sequence has no two entries of one kind
DistinctKinds(seq) == \A i, j \in 1..Len(seq) : seq[i].kind = seq[j].kind => i = j

\* the set holds the entries of the sequence and nothing else: every entry of it is
\* one of the sequence, every kind of the sequence is in it, and all the entries of
\* the sequence are in it if their kinds differ
HoldsExactly(set, seq) ==
    /\ Range(set) \subseteq Range(seq)
    /\ Kinds(set) = Kinds(seq)
    /\ DistinctKinds(seq) => Range(set) = Range(seq) /\ Len(set) = Len(seq)

C17_ErrorPrecedence ==
    (pc = "finished" /\ result.by = "finish" /\ ~result.ok) =>
        LET noAddress == ~HasKind(unlock_conditions, ADDRESS)
            badCondition == ~(Kinds(unlock_conditions) \subseteq ALLOWED_UNLOCK_CONDITIONS)
            badFeature == ~(Kinds(features) \subseteq ALLOWED_FEATURES)
        IN  /\ noAddress => result.err = "MissingAddressUnlockCondition"
            /\ (~noAddress /\ badCondition) => result.err = "UnallowedUnlockCondition"
            /\ (~noAddress /\ ~badCondition /\ badFeature) => result.err = "UnallowedFeature"
            /\ (~noAddress /\ ~badCondition /\ ~badFeature) =>
                   result.err = "InvalidOutputAmount"
            /\ result.err = "InvalidOutputAmount" =>
                   /\ SetsValid(Builder)
                   /\ amount.tag = "Amount" =>
                          (amount.amount < AMOUNT_MIN \/ amount.amount > result.token_supply)

C17_Witness ==
    /\ pc = "finished"
    /\ result.by = "finish"
    /\ amount = Amount(0)
    /\ ~HasKind(unlock_conditions, ADDRESS)
    /\ HasKind(unlock_conditions, GOVERNOR_ADDRESS)
    /\ HasKind(features, ISSUER)
    /\ result.err = "MissingAddressUnlockCondition"

\* C14: TagFeature::new and TryFrom<Vec<u8>> succeed exactly for payloads of 1 to 64
\* bytes, and then tag() returns the bytes supplied; a payload of 0 bytes or of 65 or
\* more bytes fails with InvalidTagFeatureLength and gives no value.
C14_TagLength ==
    (pc = "called" /\ call.op \in {"new", "try_from"}) =>
        LET bytes == call.arg[1]
            r == call.ret[1]
        IN  /\ r.ok <=> (1 <= Len(bytes) /\ Len(bytes) <= 64)
            /\ r.ok => Len(r.output) = 1 /\ tag(r.output[1]) = bytes
            /\ ~r.ok => r.err = "InvalidTagFeatureLength" /\ r.output = <<>>

C14_Witness ==
    /\ pc = "called"
    /\ call.op = "new"
    /\ Len(call.arg[1]) = 64
    /\ call.ret[1].ok
    /\ tag(call.ret[1].output[1])[64] = 8

\* a prefixed string of the 64 lowercase digits of 32 bytes
IsCanonicalHex(str) ==
    /\ Len(str) = 66
    /\ str[1] = "0" /\ str[2] = "x"
    /\ \A i \in 3..66 :
           str[i] \in {"0", "1", "2", "3", "4", "5", "6", "7", "8", "9",
                       "a", "b", "c", "d", "e", "f"}

\* C15: the textual form of an AliasAddress round-trips: from_str of the to_string of
\* AliasAddress::new(id) returns an address equal to AliasAddress::new(id); for a
\* prefixed string s of the lowercase digits of 32 bytes, from_str(s).to_string() is
\* s; alias_id() and into_alias_id() return the identifier given to new.
C15_TextRoundTrip ==
    /\ (pc = "called" /\ call.op = "new_to_string") =>
           LET r == call.ret[1] IN
           /\ r.from_str.ok
           /\ r.from_str.output[1] = r.new
           /\ r.alias_id = call.arg[1]
           /\ r.into_alias_id = call.arg[1]
    /\ (pc = "called" /\ call.op = "from_str" /\ IsCanonicalHex(call.arg[1])) =>
           LET r == call.ret[1] IN
           /\ r.from_str.ok
           /\ r.to_string = <<call.arg[1]>>

C15_Witness ==
    /\ pc = "called"
    /\ call.op = "from_str"
    /\ call.arg[1] = ALIAS_ID
    /\ call.ret[1].to_string = <<ALIAS_ID>>

\* C16: packing an AliasAddress gives AliasAddress::LENGTH = 32 bytes, packing it as
\* an Address gives 33 bytes, the first being the kind 8; in both cases packed_len()
\* is the length of the packed bytes and unpack_verified of the packed bytes returns
\* a value equal to the original.
C16_PackedForm ==
    (pc = "called" /\ call.op = "pack") =>
        LET r == call.ret[1] IN
        /\ ALIAS_ADDRESS_LENGTH = 32
        /\ Len(r.packed) = 32
        /\ r.packed_len = Len(r.packed)
        /\ r.unpacked.ok /\ r.unpacked.output[1] = r.new
        /\ Len(r.address_packed) = 33
        /\ r.address_packed[1] = 8
        /\ r.address_packed_len = Len(r.address_packed)
        /\ r.address_unpacked.ok
        /\ r.address_unpacked.output[1] = [kind |-> 8, address |-> r.new]

C16_Witness ==
    /\ pc = "called"
    /\ call.op = "pack"
    /\ alias_to_string(call.ret[1].new) = ALIAS_ID
    /\ Len(call.ret[1].address_packed) = 33
    /\ call.ret[1].address_unpacked.ok

====
